---- MODULE Spec2Model ----
(***************************************************************************)
(* A model of the Thrift-generated codec of openr/KnownKeys/ttypes.py:     *)
(* the structs KnownKeys {1: required map<string, binary> keys} and        *)
(* CurveKeyPair {1: binary privateKey, 2: binary publicKey}, their         *)
(* read / write / checkRequired / __eq__ / __ne__ methods, run against a   *)
(* protocol object whose calls are the tokens of the wire.                 *)
(***************************************************************************)
EXTENDS Integers, Sequences, FiniteSets, TLC

\* Bounds of the explored inputs.
MaxFields == 2      \* field entries in one input stream
MaxEntries == 2     \* map entries in one input stream / in one instance

(***************************************************************************)
(* Python values.  Every value is a record [kind, val]; kind tells None,   *)
(* bytes, str (text, a sequence of code points) and dict (a sequence of    *)
(* <<key, value>> pairs with distinct keys, in insertion order) apart.     *)
(***************************************************************************)
None == [kind |-> "None", val |-> <<>>]
NoAttr == [kind |-> "noattr", val |-> <<>>]
Bytes(s) == [kind |-> "bytes", val |-> s]
Str(s) == [kind |-> "str", val |-> s]
Dict(items) == [kind |-> "dict", val |-> items]

\* d[k] for a key known to be present.
DictGet(d, k) == d.val[CHOOSE j \in 1..Len(d.val) : d.val[j][1] = k][2]

DictHas(d, k) == \E j \in 1..Len(d.val) : d.val[j][1] = k

\* Faulty variant: a key the dict already holds keeps its value.
DictSet_KeepFirst(d, k, v) ==
  IF DictHas(d, k) THEN d ELSE Dict(Append(d.val, <<k, v>>))

\* d[k] = v: an existing key keeps its position, a new key is appended.
DictSet(d, k, v) ==
  IF DictHas(d, k)
  THEN Dict([j \in 1..Len(d.val) |->
               IF d.val[j][1] = k THEN <<k, v>> ELSE d.val[j]])
  ELSE Dict(Append(d.val, <<k, v>>))

\* Python's ==, on the values the structs hold.  dict == dict compares the
\* lengths, then looks every key of the left operand up in the right one.
\* Faulty variant: dicts are compared as sequences, in insertion order.
PyEq_Ordered(a, b) == a.kind = b.kind /\ a.val = b.val

PyEq(a, b) ==
  IF a.kind # b.kind THEN FALSE
  ELSE IF a.kind = "dict"
  THEN /\ Len(a.val) = Len(b.val)
       /\ \A j \in 1..Len(a.val) :
            /\ DictHas(b, a.val[j][1])
            /\ LET w == DictGet(b, a.val[j][1])
               IN  a.val[j][2].kind = w.kind /\ a.val[j][2].val = w.val
  ELSE a.val = b.val

\* str.encode('utf-8') for code points below 2048.
RECURSIVE EncodeUtf8(_)
EncodeUtf8(cps) ==
  IF cps = <<>> THEN <<>>
  ELSE LET c == Head(cps)
       IN  (IF c < 128 THEN <<c>> ELSE <<192 + (c \div 64), 128 + (c % 64)>>)
           \o EncodeUtf8(Tail(cps))

\* bytes.decode('utf-8'): [ok, val]; ok is FALSE where Python raises
\* UnicodeDecodeError (a stray lead or continuation byte, an overlong form).
RECURSIVE DecodeUtf8(_)
DecodeUtf8(bs) ==
  IF bs = <<>> THEN [ok |-> TRUE, val |-> <<>>]
  ELSE LET b == Head(bs)
       IN  IF b < 128
           THEN LET r == DecodeUtf8(Tail(bs))
                IN  [ok |-> r.ok, val |-> <<b>> \o r.val]
           ELSE IF /\ b >= 194 /\ b <= 223 /\ Len(bs) >= 2
                   /\ bs[2] >= 128 /\ bs[2] <= 191
           THEN LET r == DecodeUtf8(Tail(Tail(bs)))
                IN  [ok |-> r.ok,
                     val |-> <<(b - 192) * 64 + (bs[2] - 128)>> \o r.val]
           ELSE [ok |-> FALSE, val |-> <<>>]

\* UTF8STRINGS = bool(0) or sys.version_info.major >= 3, under Python 3.
UTF8STRINGS == TRUE

(***************************************************************************)
(* The wire.  A stream is the sequence of the protocol calls that wrote    *)
(* it: one token per write call.  a and a2 are wire types, b is a field   *)
(* id, a container size or an integer, s the bytes of a string.            *)
(***************************************************************************)
Tok(t, a, a2, b, s) == [t |-> t, a |-> a, a2 |-> a2, b |-> b, s |-> s]
StructBeginTok == Tok("structBegin", "", "", 0, <<>>)
StructEndTok == Tok("structEnd", "", "", 0, <<>>)
FieldBeginTok(ftype, fid) == Tok("fieldBegin", ftype, "", fid, <<>>)
FieldStopTok == Tok("fieldBegin", "STOP", "", 0, <<>>)
FieldEndTok == Tok("fieldEnd", "", "", 0, <<>>)
MapBeginTok(ktype, vtype, size) == Tok("mapBegin", ktype, vtype, size, <<>>)
MapEndTok == Tok("mapEnd", "", "", 0, <<>>)
ListBeginTok(etype, size) == Tok("listBegin", etype, "", size, <<>>)
ListEndTok == Tok("listEnd", "", "", 0, <<>>)
StringTok(s) == Tok("string", "", "", 0, s)
I32Tok(n) == Tok("i32", "", "", n, <<>>)
EofTok == Tok("eof", "", "", 0, <<>>)

At(stream, pos) == IF pos >= 1 /\ pos <= Len(stream) THEN stream[pos] ELSE EofTok

(***************************************************************************)
(* TProtocolBase.skip(ttype): the position after the value that starts at  *)
(* pos, or 0 when the tokens there are no value of that wire type.         *)
(***************************************************************************)
RECURSIVE Skip(_, _, _)
RECURSIVE SkipStructFields(_, _)
RECURSIVE SkipCounted(_, _, _, _)
RECURSIVE SkipPeeked(_, _, _)
Skip(stream, pos, ttype) ==
  LET tok == At(stream, pos)
  IN  CASE ttype = "I32" -> IF tok.t = "i32" THEN pos + 1 ELSE 0
        [] ttype = "STRING" -> IF tok.t = "string" THEN pos + 1 ELSE 0
        [] ttype = "STRUCT" ->
             IF tok.t = "structBegin" THEN SkipStructFields(stream, pos + 1) ELSE 0
        [] ttype = "MAP" ->
             IF tok.t # "mapBegin" THEN 0
             ELSE LET e == IF tok.b >= 0
                           THEN SkipCounted(stream, pos + 1, <<tok.a, tok.a2>>, tok.b)
                           ELSE SkipPeeked(stream, pos + 1, <<tok.a, tok.a2>>)
                  IN  IF e # 0 /\ At(stream, e).t = "mapEnd" THEN e + 1 ELSE 0
        [] ttype = "LIST" ->
             IF tok.t # "listBegin" THEN 0
             ELSE LET e == SkipCounted(stream, pos + 1, <<tok.a>>, tok.b)
                  IN  IF e # 0 /\ At(stream, e).t = "listEnd" THEN e + 1 ELSE 0
        [] OTHER -> 0

\* The fields of a nested struct, up to and including its STOP and struct end.
SkipStructFields(stream, pos) ==
  LET tok == At(stream, pos)
  IN  IF tok.t # "fieldBegin" THEN 0
      ELSE IF tok.a = "STOP"
      THEN IF At(stream, pos + 1).t = "structEnd" THEN pos + 2 ELSE 0
      ELSE LET e == Skip(stream, pos + 1, tok.a)
           IN  IF e # 0 /\ At(stream, e).t = "fieldEnd"
               THEN SkipStructFields(stream, e + 1) ELSE 0

\* n elements of a container; an element is one value of each of types.
SkipCounted(stream, pos, types, n) ==
  IF n <= 0 THEN pos
  ELSE LET e1 == Skip(stream, pos, types[1])
           e2 == IF Len(types) = 1 \/ e1 = 0 THEN e1 ELSE Skip(stream, e1, types[2])
       IN  IF e2 = 0 THEN 0 ELSE SkipCounted(stream, e2, types, n - 1)

\* The elements of a map of unknown size, while peekMap() sees one more.
SkipPeeked(stream, pos, types) ==
  IF At(stream, pos).t \in {"mapEnd", "eof"} THEN pos
  ELSE LET e1 == Skip(stream, pos, types[1])
           e2 == IF e1 = 0 THEN 0 ELSE Skip(stream, e1, types[2])
       IN  IF e2 = 0 THEN 0 ELSE SkipPeeked(stream, e2, types)

(***************************************************************************)
(* Input messages.  A message is a sequence of field entries; Wire(msg) is *)
(* its token stream.  shape "plain" is a map<string, string> of entries    *)
(* (declared by count, or with size -1 and ended by the map end), a string *)
(* or an i32; shape "nested" is a value with containers or structs in it.  *)
(***************************************************************************)
Field(fid, ftype, shape, peek, entries, sval) ==
  [fid |-> fid, ftype |-> ftype, shape |-> shape, peek |-> peek,
   entries |-> entries, sval |-> sval]
MapField(fid, peek, entries) == Field(fid, "MAP", "plain", peek, entries, <<>>)
StringField(fid, s) == Field(fid, "STRING", "plain", FALSE, <<>>, s)
I32Field(fid) == Field(fid, "I32", "plain", FALSE, <<>>, <<>>)
NestedField(fid, ftype) == Field(fid, ftype, "nested", FALSE, <<>>, <<>>)

RECURSIVE EntryToks(_)
EntryToks(entries) ==
  IF entries = <<>> THEN <<>>
  ELSE <<StringTok(Head(entries)[1]), StringTok(Head(entries)[2])>>
       \o EntryToks(Tail(entries))

NestedStructToks ==
  <<StructBeginTok,
    FieldBeginTok("I32", 1), I32Tok(7), FieldEndTok,
    FieldBeginTok("STRUCT", 2),
      StructBeginTok,
      FieldBeginTok("STRING", 1), StringTok(<<1>>), FieldEndTok,
      FieldStopTok, StructEndTok,
    FieldEndTok,
    FieldStopTok, StructEndTok>>

NestedMapToks ==
  <<MapBeginTok("STRING", "LIST", 1),
    StringTok(<<97>>),
    ListBeginTok("STRUCT", 1),
      StructBeginTok, FieldStopTok, StructEndTok,
    ListEndTok,
    MapEndTok>>

NestedListToks ==
  <<ListBeginTok("MAP", 1),
    MapBeginTok("I32", "STRING", 0 - 1), I32Tok(1), StringTok(<<2>>), MapEndTok,
    ListEndTok>>

PayloadToks(f) ==
  CASE f.shape = "nested" /\ f.ftype = "STRUCT" -> NestedStructToks
    [] f.shape = "nested" /\ f.ftype = "MAP" -> NestedMapToks
    [] f.shape = "nested" /\ f.ftype = "LIST" -> NestedListToks
    [] f.shape = "plain" /\ f.ftype = "MAP" ->
         <<MapBeginTok("STRING", "STRING",
                       IF f.peek THEN 0 - 1 ELSE Len(f.entries))>>
         \o EntryToks(f.entries) \o <<MapEndTok>>
    [] f.shape = "plain" /\ f.ftype = "STRING" -> <<StringTok(f.sval)>>
    [] OTHER -> <<I32Tok(7)>>

FieldToks(f) == <<FieldBeginTok(f.ftype, f.fid)>> \o PayloadToks(f) \o <<FieldEndTok>>

RECURSIVE FieldsToks(_)
FieldsToks(msg) ==
  IF msg = <<>> THEN <<>> ELSE FieldToks(Head(msg)) \o FieldsToks(Tail(msg))

Wire(msg) == <<StructBeginTok>> \o FieldsToks(msg) \o <<FieldStopTok, StructEndTok>>

\* What the transport carries after the message: the next, empty, struct.
NextMessage == <<StructBeginTok, FieldStopTok, StructEndTok>>

\* The pools the inputs are drawn from.
Classes == {"KnownKeys", "CurveKeyPair"}
KeyBytes == {<<97>>, <<195, 169>>, <<195>>}     \* "a", "e-acute", invalid UTF-8
ValueBytes == {<<1>>, <<2>>}
TextKeys == {<<97>>, <<233>>, <<97, 233>>}
EntryPool == {<<k, <<1>>>> : k \in KeyBytes} \cup {<<<<97>>, <<2>>>>}
EntrySeqs(e) == UNION {[1..k -> EntryPool] : k \in 0..e}

\* thrift_spec: the ids and wire types the struct declares.
SchemaType(cls, fid) ==
  CASE cls = "KnownKeys" /\ fid = 1 -> "MAP"
    [] cls = "CurveKeyPair" /\ fid \in {1, 2} -> "STRING"
    [] OTHER -> "STOP"

KnownIds(cls) == {fid \in 1..3 : SchemaType(cls, fid) # "STOP"}

\* Fields the schema declares, with the declared wire type.
MatchingFields(cls, e) ==
  IF cls = "KnownKeys"
  THEN {MapField(1, p, es) : p \in BOOLEAN, es \in EntrySeqs(e)}
  ELSE {StringField(fid, v) : fid \in {1, 2}, v \in ValueBytes}

\* Declared ids under another wire type.
MismatchedFields(cls) ==
  IF cls = "KnownKeys"
  THEN {StringField(1, <<1>>), NestedField(1, "STRUCT")}
  ELSE {I32Field(1), MapField(1, FALSE, <<>>), NestedField(2, "STRUCT")}

\* Ids the schema does not declare.
UnknownFields(cls) ==
  IF cls = "KnownKeys"
  THEN {StringField(2, <<2>>), MapField(2, TRUE, <<<<<<97>>, <<1>>>>>>),
        I32Field(3), NestedField(3, "STRUCT"), NestedField(3, "MAP")}
  ELSE {I32Field(3), StringField(3, <<1>>), NestedField(3, "STRUCT"),
        NestedField(3, "MAP"), NestedField(3, "LIST")}

FieldPool(cls, e) ==
  MatchingFields(cls, e) \cup MismatchedFields(cls)
  \cup {f \in UnknownFields(cls) : Len(f.entries) <= e}

(***************************************************************************)
(* Instances.  An instance is [cls, keys, privateKey, publicKey]; an       *)
(* attribute its class does not have is NoAttr.  The typed instances hold  *)
(* what thrift_spec declares: text keys and byte-string values.            *)
(***************************************************************************)
KnownKeys__init__(keys) ==
  [cls |-> "KnownKeys", keys |-> keys, privateKey |-> NoAttr, publicKey |-> NoAttr]

CurveKeyPair__init__(privateKey, publicKey) ==
  [cls |-> "CurveKeyPair", keys |-> NoAttr,
   privateKey |-> privateKey, publicKey |-> publicKey]

New(cls) ==
  IF cls = "KnownKeys" THEN KnownKeys__init__(None)
  ELSE CurveKeyPair__init__(None, None)

DistinctKeys(items) ==
  \A i, j \in 1..Len(items) : i # j => items[i][1] # items[j][1]

Dicts(e) ==
  {Dict(items) :
     items \in {q \in UNION {[1..k -> {<<Str(t), Bytes(v)>> :
                                         t \in TextKeys, v \in ValueBytes}] :
                               k \in 0..e} : DistinctKeys(q)}}

OptBytes == {None} \cup {Bytes(v) : v \in ValueBytes}

Instances(e) ==
  {KnownKeys__init__(k) : k \in {None} \cup Dicts(e)}
  \cup {CurveKeyPair__init__(a, b) : a \in OptBytes, b \in OptBytes}

(***************************************************************************)
(* Protocol objects, as far as read and write inspect them: the class of   *)
(* the protocol, get_protocol_id() of a header protocol, and whether its   *)
(* transport is a CReadableTransport.                                      *)
(***************************************************************************)
Protocol(kind, id, creadable) ==
  [kind |-> kind, protocol_id |-> id, creadable |-> creadable]

GenericProtocol == Protocol("TBinaryProtocol", "none", FALSE)

Protocols ==
  {Protocol(k, "none", c) :
     k \in {"TBinaryProtocol", "TBinaryProtocolAccelerated",
            "TCompactProtocolAccelerated"},
     c \in BOOLEAN}
  \cup {Protocol("THeaderProtocolAccelerate", i, c) :
          i \in {"T_BINARY_PROTOCOL", "T_COMPACT_PROTOCOL", "T_JSON_PROTOCOL"},
          c \in BOOLEAN}

VARIABLES
  op,           \* what the caller does: "read", "roundtrip" or "eq"
  prot,         \* the protocol object handed to read and write
  thrift_spec,  \* self.thrift_spec is not None
  fastproto,    \* fastproto is not None
  x,            \* the instance written (and, in "eq", the right operand)
  self,         \* the instance read into (and, in "eq", the left operand)
  msg,          \* the message the input stream was built from
  stream,       \* the tokens read
  pos,          \* the read cursor: the index of the next token
  pc,           \* the position in read, write or the comparison
  ftype, fid,   \* the last field header read
  size, idx,    \* the declared size of the map being read, the loop index
  calls,        \* the calls read has made, in order
  exc,          \* the exception raised, if any
  out,          \* the tokens written
  wcalls,       \* the calls write has made, in order
  eqres, neres, \* the results of __eq__ and __ne__
  cmd,          \* the arguments of the link-monitor command that runs
  links,        \* its local links: the reply of fetch_lm_links
  areas,        \* openr_config.areas, as LMValidateCmd._run fetched it
  status,       \* the local status of toggle_link_metric
  regex_invalid_interfaces,   \* the local of LMValidateCmd._run
  is_pass       \* the value LMValidateCmd._run returns

rvars == <<self, stream, pos, pc, ftype, fid, size, idx, calls, exc>>
wvars == <<out, wcalls>>
envvars == <<op, prot, thrift_spec, fastproto, x, msg>>
lmvars == <<cmd, links, areas, status, regex_invalid_interfaces, is_pass>>
vars == <<op, prot, thrift_spec, fastproto, x, self, msg, stream, pos, pc,
          ftype, fid, size, idx, calls, exc, out, wcalls, eqres, neres,
          cmd, links, areas, status, regex_invalid_interfaces, is_pass>>

NoExc == [type |-> "", msg |-> ""]
Exc(type, m) == [type |-> type, msg |-> m]
Call(name, arg) == [name |-> name, arg |-> arg]

(***************************************************************************)
(* The reader.  A reader state r is the record of rvars; every step of     *)
(* read is an operator from reader states to reader states.                *)
(***************************************************************************)
Reader(inst, toks) ==
  [self |-> inst, stream |-> toks, pos |-> 1, pc |-> "read", ftype |-> "",
   fid |-> 0, size |-> 0, idx |-> 0, calls |-> <<>>, exc |-> NoExc]

Cur ==
  [self |-> self, stream |-> stream, pos |-> pos, pc |-> pc, ftype |-> ftype,
   fid |-> fid, size |-> size, idx |-> idx, calls |-> calls, exc |-> exc]

Commit(r) ==
  /\ self' = r.self /\ stream' = r.stream /\ pos' = r.pos /\ pc' = r.pc
  /\ ftype' = r.ftype /\ fid' = r.fid /\ size' = r.size /\ idx' = r.idx
  /\ calls' = r.calls /\ exc' = r.exc

Logged(r, name, arg) == [r EXCEPT !.calls = Append(@, Call(name, arg))]
Raise(r, type, m) == [r EXCEPT !.pc = "raised", !.exc = Exc(type, m)]
Malformed(r) == Raise(r, "TProtocolException", "malformed input")

\* A protocol read call that takes one token of kind t and goes on at pc next.
Take(r, name, t, next) ==
  LET l == Logged(r, name, "")
  IN  IF At(r.stream, r.pos).t = t
      THEN [l EXCEPT !.pos = @ + 1, !.pc = next]
      ELSE Malformed(l)

\* iprot.skip(ftype); readFieldEnd is the next step.
SkipValue(r) ==
  LET l == Logged(r, "skip", r.ftype)
      e == Skip(r.stream, r.pos, r.ftype)
  IN  IF e = 0 THEN Malformed(l) ELSE [l EXCEPT !.pos = e, !.pc = "fieldEnd"]

readStructBegin(r) == Take(r, "readStructBegin", "structBegin", "fieldBegin")

\* (fname, ftype, fid) = iprot.readFieldBegin(); if ftype == TType.STOP: break
readFieldBegin(r) ==
  LET l == Logged(r, "readFieldBegin", "")
      tok == At(r.stream, r.pos)
  IN  IF tok.t # "fieldBegin" THEN Malformed(l)
      ELSE [l EXCEPT !.pos = @ + 1, !.ftype = tok.a, !.fid = tok.b,
                     !.pc = IF tok.a = "STOP" THEN "structEnd" ELSE "field"]

\* iprot.readString(), from the token at the cursor: [ok, val, r].
readString(r) ==
  LET l == Logged(r, "readString", "")
      tok == At(r.stream, r.pos)
  IN  IF tok.t = "string"
      THEN [ok |-> TRUE, val |-> tok.s, r |-> [l EXCEPT !.pos = @ + 1]]
      ELSE [ok |-> FALSE, val |-> <<>>, r |-> Malformed(l)]

\* Faulty variant: a 'keys' that is already a dict is not replaced by {}.
KnownKeys_readMapBegin_Merging(r) ==
  LET l == Logged(IF r.self.keys.kind = "dict" THEN r
                  ELSE [r EXCEPT !.self.keys = Dict(<<>>)], "readMapBegin", "")
      tok == At(r.stream, r.pos)
  IN  IF tok.t # "mapBegin" THEN Malformed(l)
      ELSE [l EXCEPT !.pos = @ + 1, !.size = tok.b, !.idx = 0, !.pc = "mapLoop"]

\* self.keys = {}; (_ktype1, _vtype2, _size0) = iprot.readMapBegin()
KnownKeys_readMapBegin(r) ==
  LET l == Logged([r EXCEPT !.self.keys = Dict(<<>>)], "readMapBegin", "")
      tok == At(r.stream, r.pos)
  IN  IF tok.t # "mapBegin" THEN Malformed(l)
      ELSE [l EXCEPT !.pos = @ + 1, !.size = tok.b, !.idx = 0, !.pc = "mapLoop"]

\* Faulty variant: the wire type of field 1 is not compared with TType.MAP.
KnownKeys_readField_AnyType(r) ==
  IF r.fid = 1 THEN KnownKeys_readMapBegin(r) ELSE SkipValue(r)

\* Faulty variant: every MAP field is taken for 'keys', whatever its id.
KnownKeys_readField_AnyId(r) ==
  IF r.ftype = "MAP" THEN KnownKeys_readMapBegin(r) ELSE SkipValue(r)

\* KnownKeys.read, the body of the field loop up to the map's entries.
KnownKeys_readField(r) ==
  IF r.fid = 1
  THEN IF r.ftype = "MAP" THEN KnownKeys_readMapBegin(r) ELSE SkipValue(r)
  ELSE SkipValue(r)

\* Faulty variant: a map of unknown size is taken to be empty.
MapMore_CountedOnly(r) == r.size >= 0 /\ r.idx < r.size

\* iprot.peekMap(): is another entry ahead of the map end?
peekMap(r) == At(r.stream, r.pos).t \notin {"mapEnd", "eof"}

\* The loop test: range(_size0) has another index, or peekMap() is true.
MapMore(r) == IF r.size >= 0 THEN r.idx < r.size ELSE peekMap(r)

LoopTested(r) == IF r.size >= 0 THEN r ELSE Logged(r, "peekMap", "")

\* One pass of the loop body: the key, decoded as UTF-8, the value, the store.
KnownKeys_readMapEntry(r) ==
  LET k == readString(LoopTested(r))
  IN  IF ~k.ok THEN k.r
      ELSE LET d == DecodeUtf8(k.val)
               key == IF UTF8STRINGS THEN Str(d.val) ELSE Bytes(k.val)
           IN  IF UTF8STRINGS /\ ~d.ok
               THEN Raise(k.r, "UnicodeDecodeError", "invalid utf-8")
               ELSE LET v == readString(k.r)
                    IN  IF ~v.ok THEN v.r
                        ELSE [v.r EXCEPT
                                !.self.keys = DictSet(@, key, Bytes(v.val)),
                                !.idx = @ + 1]

\* iprot.readMapEnd(), after the loop.
KnownKeys_readMapEnd(r) == Take(LoopTested(r), "readMapEnd", "mapEnd", "fieldEnd")

\* CurveKeyPair.read, the body of the field loop.
CurveKeyPair_readField(r) ==
  IF r.fid = 1
  THEN IF r.ftype = "STRING"
       THEN LET v == readString(r)
            IN  IF ~v.ok THEN v.r
                ELSE [v.r EXCEPT !.self.privateKey = Bytes(v.val), !.pc = "fieldEnd"]
       ELSE SkipValue(r)
  ELSE IF r.fid = 2
  THEN IF r.ftype = "STRING"
       THEN LET v == readString(r)
            IN  IF ~v.ok THEN v.r
                ELSE [v.r EXCEPT !.self.publicKey = Bytes(v.val), !.pc = "fieldEnd"]
       ELSE SkipValue(r)
  ELSE SkipValue(r)

\* Faulty variant: the loop goes on to the next header without readFieldEnd.
readFieldEnd_Omitted(r) == [r EXCEPT !.pc = "fieldBegin"]

readFieldEnd(r) == Take(r, "readFieldEnd", "fieldEnd", "fieldBegin")

\* Faulty variant: read returns after readStructEnd, without the validator.
readStructEnd_NoValidator(r) == Take(r, "readStructEnd", "structEnd", "returned")

readStructEnd(r) == Take(r, "readStructEnd", "structEnd", "checkRequired")

\* Faulty variant: the validator accepts an unset 'keys'.
KnownKeys_checkRequired_Lenient(r) ==
  [Logged(r, "checkRequired", "") EXCEPT !.pc = "returned"]

KnownKeys_checkRequired(r) ==
  LET l == Logged(r, "checkRequired", "")
  IN  IF PyEq(l.self.keys, None)
      THEN Raise(l, "MISSING_REQUIRED_FIELD",
                 "Required field 'keys' was not found in serialized data! Struct: KnownKeys")
      ELSE [l EXCEPT !.pc = "returned"]

CurveKeyPair_checkRequired(r) == [Logged(r, "checkRequired", "") EXCEPT !.pc = "returned"]

checkRequired(r) ==
  IF r.self.cls = "KnownKeys" THEN KnownKeys_checkRequired(r)
  ELSE CurveKeyPair_checkRequired(r)

\* One step of the generic reader, from any position before its end.
GenericStep(r) ==
  CASE r.pc = "read" -> readStructBegin(r)
    [] r.pc = "fieldBegin" -> readFieldBegin(r)
    [] r.pc = "field" ->
         IF r.self.cls = "KnownKeys" THEN KnownKeys_readField(r)
         ELSE CurveKeyPair_readField(r)
    [] r.pc = "mapLoop" ->
         IF MapMore(r) THEN KnownKeys_readMapEntry(r) ELSE KnownKeys_readMapEnd(r)
    [] r.pc = "fieldEnd" -> readFieldEnd(r)
    [] r.pc = "structEnd" -> readStructEnd(r)
    [] r.pc = "checkRequired" -> checkRequired(r)
    [] OTHER -> r

\* The generic reader run until one of the positions in stops.
RECURSIVE RunUntil(_, _)
RunUntil(r, stops) ==
  IF r.pc \in stops \cup {"returned", "raised"} THEN r
  ELSE RunUntil(GenericStep(r), stops)

\* The generic read of the tokens toks into a fresh instance of cls.
GenericRead(cls, toks) == RunUntil(Reader(New(cls), toks), {})


(***************************************************************************)
(* The choice of the implementation: the conditions read and write test.   *)
(***************************************************************************)
AccelBinary(p) ==
  \/ p.kind = "TBinaryProtocolAccelerated"
  \/ p.kind = "THeaderProtocolAccelerate" /\ p.protocol_id = "T_BINARY_PROTOCOL"

AccelCompact(p) ==
  \/ p.kind = "TCompactProtocolAccelerated"
  \/ p.kind = "THeaderProtocolAccelerate" /\ p.protocol_id = "T_COMPACT_PROTOCOL"

\* Faulty variant: read does not look at the transport.
ReadPath_AnyTransport(p, spec, fp) ==
  IF AccelBinary(p) /\ spec /\ fp THEN "binary"
  ELSE IF AccelCompact(p) /\ spec /\ fp THEN "compact"
  ELSE "generic"

\* read: "binary", "compact" or "generic".
ReadPath(p, spec, fp) ==
  IF AccelBinary(p) /\ p.creadable /\ spec /\ fp THEN "binary"
  ELSE IF AccelCompact(p) /\ p.creadable /\ spec /\ fp THEN "compact"
  ELSE "generic"

\* write: "binary", "compact" or "generic".
WritePath(p, spec, fp) ==
  IF AccelBinary(p) /\ spec /\ fp THEN "binary"
  ELSE IF AccelCompact(p) /\ spec /\ fp THEN "compact"
  ELSE "generic"

\* fastproto.decode(self, iprot.trans, ..., protoid): decodes the struct as
\* the generic reader does, without the protocol calls.
FastprotoDecode(r, protoid) ==
  LET l == Logged(r, "fastproto.decode", protoid)
      g == RunUntil(Reader(r.self, r.stream), {"checkRequired"})
  IN  IF g.pc = "raised" THEN Raise(l, g.exc.type, g.exc.msg)
      ELSE [l EXCEPT !.self = g.self, !.pos = g.pos, !.pc = "checkRequired"]

(***************************************************************************)
(* The writer.  A writer state w is [x, out, calls, pc, exc].              *)
(***************************************************************************)
Writer(inst) ==
  [x |-> inst, out |-> <<>>, calls |-> <<>>, pc |-> "write", exc |-> NoExc]

WCur == [x |-> x, out |-> out, calls |-> wcalls, pc |-> pc, exc |-> exc]

WCommit(w) == out' = w.out /\ wcalls' = w.calls /\ pc' = w.pc /\ exc' = w.exc

Emit(w, name, tok) ==
  [w EXCEPT !.out = Append(@, tok), !.calls = Append(@, Call(name, ""))]

\* Faulty variant: write validates the required fields first.
writeStructBegin_Validating(w) ==
  LET l == [w EXCEPT !.calls = Append(@, Call("checkRequired", ""))]
  IN  IF w.x.cls = "KnownKeys" /\ PyEq(w.x.keys, None)
      THEN [l EXCEPT !.pc = "raised",
                     !.exc = Exc("MISSING_REQUIRED_FIELD",
                                 "Required field 'keys' was not found in serialized data! Struct: KnownKeys")]
      ELSE [Emit(l, "writeStructBegin", StructBeginTok) EXCEPT
              !.pc = IF w.x.cls = "KnownKeys" THEN "writeKeys" ELSE "writePrivateKey"]

writeStructBegin(w) ==
  [Emit(w, "writeStructBegin", StructBeginTok) EXCEPT
     !.pc = IF w.x.cls = "KnownKeys" THEN "writeKeys" ELSE "writePrivateKey"]

\* Faulty variant: the key is written without being encoded.
KeyBytesOf_Raw(k) == k.val

\* oprot.writeString(kiter9.encode('utf-8')) if UTF8STRINGS and not
\* isinstance(kiter9, bytes) else oprot.writeString(kiter9)
KeyBytesOf(k) == IF UTF8STRINGS /\ k.kind # "bytes" THEN EncodeUtf8(k.val) ELSE k.val

\* for kiter9, viter10 in self.keys.items(): the key, then the value.
RECURSIVE WriteItems(_, _)
WriteItems(w, items) ==
  IF items = <<>> THEN w
  ELSE WriteItems(
         Emit(Emit(w, "writeString", StringTok(KeyBytesOf(Head(items)[1]))),
              "writeString", StringTok(Head(items)[2].val)),
         Tail(items))

\* The field 'keys' on the wire: its header, the map and the field end.
KnownKeys_writeKeysField(w, items) ==
  LET h == Emit(Emit(w, "writeFieldBegin", FieldBeginTok("MAP", 1)),
                "writeMapBegin", MapBeginTok("STRING", "STRING", Len(items)))
      b == WriteItems(h, items)
  IN  [Emit(Emit(b, "writeMapEnd", MapEndTok), "writeFieldEnd", FieldEndTok)
         EXCEPT !.pc = "writeFieldStop"]

\* Faulty variant: an unset 'keys' is written as an empty map.
KnownKeys_writeKeys_Always(w) ==
  KnownKeys_writeKeysField(w, IF w.x.keys.kind = "dict" THEN w.x.keys.val ELSE <<>>)

\* if self.keys != None: the field header, the map and the field end.
KnownKeys_writeKeys(w) ==
  IF ~PyEq(w.x.keys, None)
  THEN KnownKeys_writeKeysField(w, w.x.keys.val)
  ELSE [w EXCEPT !.pc = "writeFieldStop"]

WriteBytesField(w, name, fieldId, v, next) ==
  IF ~PyEq(v, None)
  THEN [Emit(Emit(Emit(w, "writeFieldBegin", FieldBeginTok("STRING", fieldId)),
                  "writeString", StringTok(v.val)),
             "writeFieldEnd", FieldEndTok)
          EXCEPT !.pc = next]
  ELSE [w EXCEPT !.pc = next]

CurveKeyPair_writePrivateKey(w) ==
  WriteBytesField(w, "privateKey", 1, w.x.privateKey, "writePublicKey")

CurveKeyPair_writePublicKey(w) ==
  WriteBytesField(w, "publicKey", 2, w.x.publicKey, "writeFieldStop")

writeFieldStop(w) ==
  [Emit(w, "writeFieldStop", FieldStopTok) EXCEPT !.pc = "writeStructEnd"]

writeStructEnd(w) ==
  [Emit(w, "writeStructEnd", StructEndTok) EXCEPT !.pc = "written"]

WriteStep(w) ==
  CASE w.pc = "write" -> writeStructBegin(w)
    [] w.pc = "writeKeys" -> KnownKeys_writeKeys(w)
    [] w.pc = "writePrivateKey" -> CurveKeyPair_writePrivateKey(w)
    [] w.pc = "writePublicKey" -> CurveKeyPair_writePublicKey(w)
    [] w.pc = "writeFieldStop" -> writeFieldStop(w)
    [] w.pc = "writeStructEnd" -> writeStructEnd(w)
    [] OTHER -> w

RECURSIVE RunWrite(_)
RunWrite(w) == IF w.pc \in {"written", "raised"} THEN w ELSE RunWrite(WriteStep(w))

\* oprot.trans.write(fastproto.encode(self, ..., protoid)): the encoding of
\* the struct the generic writer produces, written in one piece.
FastprotoEncode(w, protoid) ==
  [w EXCEPT !.out = RunWrite(Writer(w.x)).out,
            !.calls = @ \o <<Call("fastproto.encode", protoid),
                             Call("trans.write", "")>>,
            !.pc = "written"]

(***************************************************************************)
(* __eq__ and __ne__.                                                      *)
(***************************************************************************)
Attrs(inst) == {a \in {"keys", "privateKey", "publicKey"} : inst[a].kind # "noattr"}

\* self.__dict__ == other.__dict__
DictAttrsEq(a, b) ==
  /\ Attrs(a) = Attrs(b)
  /\ \A n \in Attrs(a) : PyEq(a[n], b[n])

__eq__(a, b) == IF b.cls # a.cls THEN FALSE ELSE DictAttrsEq(a, b)

__ne__(a, b) == ~__eq__(a, b)

(***************************************************************************)
(* The link-monitor commands of cli/commands/lm.py.  links is the          *)
(* DumpLinksReply the node answers fetch_lm_links with; an optional i32    *)
(* that is not set is None, one that is set is PyInt(n).                   *)
(***************************************************************************)
MaxMetric == 2      \* metrics and metric increments are at most this
MaxAreas == 2       \* areas of the running configuration

PyInt(n) == [kind |-> "int", val |-> n]

\* Python's truth value of an Optional[int]: None and 0 are false.
Truthy(v) == v.kind = "int" /\ v.val # 0

InterfaceDetails(isOverloaded, metricOverride, linkMetricIncrementVal) ==
  [isOverloaded |-> isOverloaded, metricOverride |-> metricOverride,
   linkMetricIncrementVal |-> linkMetricIncrementVal]

DumpLinksReply(isOverloaded, nodeMetricIncrementVal, interfaceDetails) ==
  [thisNodeName |-> "node1", isOverloaded |-> isOverloaded,
   nodeMetricIncrementVal |-> nodeMetricIncrementVal,
   interfaceDetails |-> interfaceDetails]

\* The pools the replies, the arguments and the configuration are drawn from.
Interfaces == {"if0", "if1"}

\* "if0" with any details, or absent; "if1" with the default details, or absent.
LinkReplies ==
  LET Details == {InterfaceDetails(o, m, v) :
                    o \in BOOLEAN,
                    m \in {None} \cup {PyInt(n) : n \in 0..MaxMetric},
                    v \in 0..MaxMetric}
      Maps == UNION {[S -> Details] : S \in SUBSET Interfaces}
  IN  {DumpLinksReply(o, v, d) :
         o \in BOOLEAN, v \in 0..MaxMetric,
         d \in {m \in Maps :
                  "if1" \in DOMAIN m =>
                    m["if1"] = InterfaceDetails(FALSE, None, 0)}}

\* The replies LMValidateCmd is run against: the interfaces differ in details.
ValidateReplies ==
  {r \in LinkReplies :
     /\ ~r.isOverloaded /\ r.nodeMetricIncrementVal = 0
     /\ "if0" \in DOMAIN r.interfaceDetails =>
          r.interfaceDetails["if0"] = InterfaceDetails(TRUE, PyInt(1), 0)}

\* A regular expression, by the interface names the pools hold.
Matches(regex, string) ==
  CASE regex = "if0" -> string = "if0"
    [] regex = "if1" -> string = "if1"
    [] regex = "if.*" -> string \in {"if0", "if1"}
    [] OTHER -> FALSE

AreaConfiguration(incl, excl, redistr) ==
  [include_interface_regexes |-> incl, exclude_interface_regexes |-> excl,
   redistribute_interface_regexes |-> redistr]

AreaPool ==
  LET RegexLists == {<<>>, <<"if0">>, <<"if1", "if.*">>}
  IN  {AreaConfiguration(i, e, r) :
         i \in RegexLists, e \in RegexLists, r \in RegexLists}

\* OpenrCtrlCmd.validate_regexes(regexes, strings, expect_match): with
\* expect_match, some regex matches some string; without, none does.
validate_regexes(regexes, strings, expect_match) ==
  LET matched == \E i \in 1..Len(regexes), j \in 1..Len(strings) :
                   Matches(regexes[i], strings[j])
  IN  IF expect_match THEN matched ELSE ~matched

\* utils.yesno(question, yes): True at once with yes, else the user's answer.
yesno(yes) == IF yes THEN {TRUE} ELSE BOOLEAN

\* LMCmdBase.check_link_overriden(links, interface, metric)
check_link_overriden(reply, interface, metric) ==
  LET metricOverride == reply.interfaceDetails[interface].metricOverride
  IN  IF ~Truthy(metricOverride) THEN None
      ELSE [kind |-> "bool", val |-> metricOverride.val = metric]

\* Faulty variant: the exclude regexes only guard the redistribute regexes.
AreaPasses_Precedence(area, interface) ==
  \/ validate_regexes(area.include_interface_regexes, <<interface>>, TRUE)
  \/ /\ validate_regexes(area.redistribute_interface_regexes, <<interface>>, TRUE)
     /\ validate_regexes(area.exclude_interface_regexes, <<interface>>, FALSE)

\* The body of the loop over the areas: does the interface pass this area?
AreaPasses(area, interface) ==
  LET passes_incl_regexes ==
        validate_regexes(area.include_interface_regexes, <<interface>>, TRUE)
      passes_excl_regexes ==
        validate_regexes(area.exclude_interface_regexes, <<interface>>, FALSE)
      passes_redistr_regexes ==
        validate_regexes(area.redistribute_interface_regexes, <<interface>>, TRUE)
  IN  (passes_incl_regexes \/ passes_redistr_regexes) /\ passes_excl_regexes

\* for area in areas: ... passes_regex_check = True; break
RECURSIVE passes_regex_check(_, _)
passes_regex_check(as, interface) ==
  IF as = <<>> THEN FALSE
  ELSE IF AreaPasses(Head(as), interface) THEN TRUE
  ELSE passes_regex_check(Tail(as), interface)

\* LMValidateCmd._validate_interface_regex(links, areas): the dict as a
\* function from its keys.
validate_interface_regex(reply, as) ==
  LET invalid_interfaces ==
        {interface \in DOMAIN reply.interfaceDetails :
           ~passes_regex_check(as, interface)}
  IN  [interface \in invalid_interfaces |-> reply.interfaceDetails[interface]]

\* The arguments the commands of the CLI call the toggles with.
Command(name, flag, interface, metric, yes) ==
  [name |-> name, flag |-> flag, interface |-> interface, metric |-> metric,
   yes |-> yes]

\* int(metric) of the command line is any integer; the clear and unset
\* commands pass 0.
Commands ==
  LET MetricArgs == (0 - 1)..MaxMetric
  IN  {Command("toggle_node_overload_bit", o, "", 0, y) :
         o \in BOOLEAN, y \in BOOLEAN}
      \cup {Command("toggle_link_overload_bit", o, i, 0, y) :
              o \in BOOLEAN, i \in Interfaces, y \in BOOLEAN}
      \cup {Command("toggle_node_metric_inc", FALSE, "", m, y) :
              m \in MetricArgs, y \in BOOLEAN}
      \cup {Command("toggle_link_metric_inc", FALSE, i, m, y) :
              i \in Interfaces, m \in MetricArgs, y \in BOOLEAN}
      \cup {Command("toggle_link_metric", TRUE, i, m, y) :
              i \in Interfaces, m \in MetricArgs, y \in BOOLEAN}
      \cup {Command("toggle_link_metric", FALSE, i, 0, y) :
              i \in Interfaces, y \in BOOLEAN}
      \cup {Command("validate", FALSE, "", 0, FALSE)}

\* The locals of a command before its first statement; status is not bound.
NoLocals ==
  /\ links = DumpLinksReply(FALSE, 0, <<>>) /\ areas = <<>>
  /\ status = [kind |-> "unbound", val |-> <<>>]
  /\ regex_invalid_interfaces = <<>> /\ is_pass = FALSE

(***************************************************************************)
(* The runs explored.  "read": a peer composes a message, field by field,  *)
(* and the caller reads its stream into a fresh instance.  "roundtrip":    *)
(* the caller writes an instance and reads what was written into a fresh   *)
(* instance, then compares the two (the stream ends with the struct).      *)
(* "eq": two instances are compared.                                       *)
(* Every protocol object is explored with short inputs; the long inputs    *)
(* go through the generic protocol.                                        *)
(***************************************************************************)
LongInputs(p, spec, fp) == p = GenericProtocol /\ spec /\ fp
FieldLimit(p, spec, fp) == IF LongInputs(p, spec, fp) THEN MaxFields ELSE 1
EntryLimit(p, spec, fp) == IF LongInputs(p, spec, fp) THEN MaxEntries ELSE 1

RECURSIVE EntriesIn(_)
EntriesIn(m) == IF m = <<>> THEN 0 ELSE Len(Head(m).entries) + EntriesIn(Tail(m))

InitCommon ==
  /\ msg = <<>> /\ stream = <<>> /\ pos = 1
  /\ ftype = "" /\ fid = 0 /\ size = 0 /\ idx = 0
  /\ calls = <<>> /\ exc = NoExc /\ out = <<>> /\ wcalls = <<>>
  /\ eqres = FALSE /\ neres = FALSE

Init ==
  /\ InitCommon
  /\ cmd = Command("", FALSE, "", 0, FALSE) /\ NoLocals
  /\ \/ /\ op = "read" /\ pc = "compose"
        /\ prot \in Protocols /\ thrift_spec \in BOOLEAN /\ fastproto \in BOOLEAN
        /\ \E c \in Classes : x = New(c) /\ self = New(c)
     \/ /\ op = "roundtrip" /\ pc = "write"
        /\ prot \in Protocols /\ thrift_spec \in BOOLEAN /\ fastproto \in BOOLEAN
        /\ x \in Instances(EntryLimit(prot, thrift_spec, fastproto))
        /\ self = New(x.cls)
     \/ /\ op = "eq" /\ pc = "compare"
        /\ prot = GenericProtocol /\ thrift_spec = TRUE /\ fastproto = TRUE
        /\ x \in Instances(MaxEntries)
        /\ self \in Instances(MaxEntries)

\* The peer appends one field to the message.
ComposeField ==
  /\ pc = "compose"
  /\ Len(msg) < FieldLimit(prot, thrift_spec, fastproto)
  /\ \E f \in FieldPool(self.cls,
                        EntryLimit(prot, thrift_spec, fastproto) - EntriesIn(msg)) :
       msg' = Append(msg, f)
  /\ UNCHANGED <<op, prot, thrift_spec, fastproto, x, self, stream, pos, pc,
                 ftype, fid, size, idx, calls, exc, out, wcalls, eqres, neres,
                 lmvars>>

\* The message is complete: read is called on the stream that carries it,
\* followed by the next message.
StartRead ==
  /\ pc = "compose"
  /\ stream' = Wire(msg) \o NextMessage
  /\ pc' = "read"
  /\ UNCHANGED <<op, prot, thrift_spec, fastproto, x, self, msg, pos,
                 ftype, fid, size, idx, calls, exc, out, wcalls, eqres, neres,
                 lmvars>>

ReadStep(stepOf) ==
  /\ Commit(stepOf)
  /\ UNCHANGED <<envvars, wvars, eqres, neres, lmvars>>

\* read, lines 47-54 and 145-152: the accelerated decoders.
ReadFastBinary ==
  /\ pc = "read" /\ ReadPath(prot, thrift_spec, fastproto) = "binary"
  /\ ReadStep(FastprotoDecode(Cur, "0"))

ReadFastCompact ==
  /\ pc = "read" /\ ReadPath(prot, thrift_spec, fastproto) = "compact"
  /\ ReadStep(FastprotoDecode(Cur, "2"))

ReadStructBegin ==
  /\ pc = "read" /\ ReadPath(prot, thrift_spec, fastproto) = "generic"
  /\ ReadStep(readStructBegin(Cur))

ReadFieldBegin == pc = "fieldBegin" /\ ReadStep(readFieldBegin(Cur))

KnownKeysReadField ==
  /\ pc = "field" /\ self.cls = "KnownKeys"
  /\ ReadStep(KnownKeys_readField(Cur))

KnownKeysReadMapEntry ==
  /\ pc = "mapLoop" /\ MapMore(Cur)
  /\ ReadStep(KnownKeys_readMapEntry(Cur))

KnownKeysReadMapEnd ==
  /\ pc = "mapLoop" /\ ~MapMore(Cur)
  /\ ReadStep(KnownKeys_readMapEnd(Cur))

CurveKeyPairReadField ==
  /\ pc = "field" /\ self.cls = "CurveKeyPair"
  /\ ReadStep(CurveKeyPair_readField(Cur))

ReadFieldEnd == pc = "fieldEnd" /\ ReadStep(readFieldEnd(Cur))

ReadStructEnd == pc = "structEnd" /\ ReadStep(readStructEnd(Cur))

CheckRequired == pc = "checkRequired" /\ ReadStep(checkRequired(Cur))

WriteStepOf(stepOf) ==
  /\ WCommit(stepOf)
  /\ UNCHANGED <<envvars, self, stream, pos, ftype, fid, size, idx, calls,
                 eqres, neres, lmvars>>

\* write, lines 90-95 and 178-183: the accelerated encoders.
WriteFastBinary ==
  /\ pc = "write" /\ WritePath(prot, thrift_spec, fastproto) = "binary"
  /\ WriteStepOf(FastprotoEncode(WCur, "0"))

WriteFastCompact ==
  /\ pc = "write" /\ WritePath(prot, thrift_spec, fastproto) = "compact"
  /\ WriteStepOf(FastprotoEncode(WCur, "2"))

WriteStructBegin ==
  /\ pc = "write" /\ WritePath(prot, thrift_spec, fastproto) = "generic"
  /\ WriteStepOf(writeStructBegin(WCur))

KnownKeysWriteKeys == pc = "writeKeys" /\ WriteStepOf(KnownKeys_writeKeys(WCur))

CurveKeyPairWritePrivateKey ==
  pc = "writePrivateKey" /\ WriteStepOf(CurveKeyPair_writePrivateKey(WCur))

CurveKeyPairWritePublicKey ==
  pc = "writePublicKey" /\ WriteStepOf(CurveKeyPair_writePublicKey(WCur))

WriteFieldStop == pc = "writeFieldStop" /\ WriteStepOf(writeFieldStop(WCur))

WriteStructEnd == pc = "writeStructEnd" /\ WriteStepOf(writeStructEnd(WCur))

\* The caller reads what was written into a fresh instance of the class.
ReadBack ==
  /\ op = "roundtrip" /\ pc = "written"
  /\ Commit(Reader(New(x.cls), out))
  /\ UNCHANGED <<envvars, wvars, eqres, neres, lmvars>>

\* self == x and self != x.
Compare ==
  /\ \/ op = "roundtrip" /\ pc = "returned"
     \/ op = "eq" /\ pc = "compare"
  /\ eqres' = __eq__(self, x)
  /\ neres' = __ne__(self, x)
  /\ pc' = "compared"
  /\ UNCHANGED <<envvars, wvars, self, stream, pos, ftype, fid, size, idx,
                 calls, exc, lmvars>>

Next ==
  \/ ComposeField \/ StartRead
  \/ ReadFastBinary \/ ReadFastCompact \/ ReadStructBegin \/ ReadFieldBegin
  \/ KnownKeysReadField \/ KnownKeysReadMapEntry \/ KnownKeysReadMapEnd
  \/ CurveKeyPairReadField \/ ReadFieldEnd \/ ReadStructEnd \/ CheckRequired
  \/ WriteFastBinary \/ WriteFastCompact \/ WriteStructBegin
  \/ KnownKeysWriteKeys \/ CurveKeyPairWritePrivateKey
  \/ CurveKeyPairWritePublicKey \/ WriteFieldStop \/ WriteStructEnd
  \/ ReadBack \/ Compare

Spec == Init /\ [][Next]_vars

(***************************************************************************)
(* The runs of the link-monitor commands: a command of the CLI calls one   *)
(* of the toggles of LMCmdBase, or LMValidateCmd._run, against a node.     *)
(* pc is the position in the method, calls the calls it has made.          *)
(***************************************************************************)
codecvars == <<prot, thrift_spec, fastproto, x, self, msg, stream, pos, ftype,
               fid, size, idx, exc, out, wcalls, eqres, neres>>

LmInit ==
  /\ InitCommon
  /\ prot = GenericProtocol /\ thrift_spec = TRUE /\ fastproto = TRUE
  /\ x = New("KnownKeys") /\ self = New("KnownKeys")
  /\ cmd \in Commands /\ op = cmd.name /\ pc = "fetch"
  /\ NoLocals

\* links = self.fetch_lm_links(client)
FetchLinks ==
  /\ pc = "fetch"
  /\ links' \in (IF op = "validate" THEN ValidateReplies ELSE LinkReplies)
  /\ calls' = Append(calls, Call("fetch_lm_links", <<>>))
  /\ pc' = IF op = "validate" THEN "config" ELSE "guards"
  /\ UNCHANGED <<op, codecvars, cmd, areas, status, regex_invalid_interfaces,
                 is_pass>>

\* The end of the guards: sys.exit(0), return, or on to the question.
Guarded(outcome) ==
  /\ pc' = CASE outcome = "exit" -> "exited"
            [] outcome = "return" -> "returned"
            [] OTHER -> "yesno"
  /\ calls' = IF outcome = "exit" THEN Append(calls, Call("sys.exit", <<"0">>))
              ELSE calls
  /\ UNCHANGED <<op, codecvars, cmd, links, areas, regex_invalid_interfaces,
                 is_pass>>

\* toggle_node_overload_bit, lines 37-43
ToggleNodeOverloadBitGuards ==
  /\ op = "toggle_node_overload_bit" /\ pc = "guards"
  /\ Guarded(IF cmd.flag /\ links.isOverloaded THEN "exit"
             ELSE IF ~cmd.flag /\ ~links.isOverloaded THEN "exit"
             ELSE "ask")
  /\ UNCHANGED status

\* toggle_link_overload_bit, lines 71-81
ToggleLinkOverloadBitGuards ==
  /\ op = "toggle_link_overload_bit" /\ pc = "guards"
  /\ Guarded(IF cmd.interface \notin DOMAIN links.interfaceDetails THEN "return"
             ELSE IF cmd.flag /\ links.interfaceDetails[cmd.interface].isOverloaded
             THEN "exit"
             ELSE IF ~cmd.flag /\ ~links.interfaceDetails[cmd.interface].isOverloaded
             THEN "exit"
             ELSE "ask")
  /\ UNCHANGED status

\* toggle_node_metric_inc, lines 107-117
ToggleNodeMetricIncGuards ==
  /\ op = "toggle_node_metric_inc" /\ pc = "guards"
  /\ Guarded(IF cmd.metric < 0 THEN "exit"
             ELSE IF cmd.metric # 0 /\ links.nodeMetricIncrementVal = cmd.metric
             THEN "return"
             ELSE IF cmd.metric = 0 /\ links.nodeMetricIncrementVal = 0
             THEN "return"
             ELSE "ask")
  /\ UNCHANGED status

\* toggle_link_metric_inc, lines 146-166
ToggleLinkMetricIncGuards ==
  /\ op = "toggle_link_metric_inc" /\ pc = "guards"
  /\ Guarded(IF cmd.metric < 0 THEN "exit"
             ELSE IF cmd.interface \notin DOMAIN links.interfaceDetails THEN "exit"
             ELSE IF /\ cmd.metric # 0
                     /\ links.interfaceDetails[cmd.interface].linkMetricIncrementVal
                          = cmd.metric
             THEN "return"
             ELSE IF /\ cmd.metric = 0
                     /\ links.interfaceDetails[cmd.interface].linkMetricIncrementVal = 0
             THEN "return"
             ELSE "ask")
  /\ UNCHANGED status

\* toggle_link_metric, lines 204-219
ToggleLinkMetricGuards ==
  /\ op = "toggle_link_metric" /\ pc = "guards"
  /\ IF cmd.interface \notin DOMAIN links.interfaceDetails
     THEN Guarded("return") /\ UNCHANGED status
     ELSE /\ status' = check_link_overriden(links, cmd.interface, cmd.metric)
          /\ Guarded(IF ~cmd.flag /\ status'.kind = "None" THEN "exit"
                     ELSE IF cmd.flag /\ status'.kind = "bool" /\ status'.val
                     THEN "exit"
                     ELSE "ask")

\* Faulty variant: the answer to the question is not looked at.
AfterYesNo_Ignored(name, answer) == "rpc"

\* if not utils.yesno(...): return, or sys.exit(0) in the metric increments.
AfterYesNo(name, answer) ==
  IF answer THEN "rpc"
  ELSE IF name \in {"toggle_node_metric_inc", "toggle_link_metric_inc"}
  THEN "exited"
  ELSE "returned"

\* The question of the five toggles.
YesNo ==
  /\ pc = "yesno"
  /\ \E answer \in yesno(cmd.yes) :
       LET asked == Append(calls, Call("utils.yesno",
                                       <<IF answer THEN "True" ELSE "False">>))
       IN  /\ pc' = AfterYesNo(op, answer)
           /\ calls' = IF pc' = "exited"
                       THEN Append(asked, Call("sys.exit", <<"0">>))
                       ELSE asked
  /\ UNCHANGED <<op, codecvars, lmvars>>

\* The call of the client that changes the state of the node.
Issue(name, args) ==
  /\ pc' = "returned"
  /\ calls' = Append(calls, Call(name, args))
  /\ UNCHANGED <<op, codecvars, lmvars>>

\* toggle_node_overload_bit, lines 52-55
ToggleNodeOverloadBitRpc ==
  /\ op = "toggle_node_overload_bit" /\ pc = "rpc"
  /\ IF cmd.flag THEN Issue("setNodeOverload", <<>>)
     ELSE Issue("unsetNodeOverload", <<>>)

\* toggle_link_overload_bit, lines 89-92
ToggleLinkOverloadBitRpc ==
  /\ op = "toggle_link_overload_bit" /\ pc = "rpc"
  /\ IF cmd.flag THEN Issue("setInterfaceOverload", <<cmd.interface>>)
     ELSE Issue("unsetInterfaceOverload", <<cmd.interface>>)

\* toggle_node_metric_inc, lines 124-127
ToggleNodeMetricIncRpc ==
  /\ op = "toggle_node_metric_inc" /\ pc = "rpc"
  /\ IF cmd.metric # 0
     THEN Issue("setNodeInterfaceMetricIncrement", <<ToString(cmd.metric)>>)
     ELSE Issue("unsetNodeInterfaceMetricIncrement", <<>>)

\* toggle_link_metric_inc, lines 173-176
ToggleLinkMetricIncRpc ==
  /\ op = "toggle_link_metric_inc" /\ pc = "rpc"
  /\ IF cmd.metric # 0
     THEN Issue("setInterfaceMetricIncrement",
                <<cmd.interface, ToString(cmd.metric)>>)
     ELSE Issue("unsetInterfaceMetricIncrement", <<cmd.interface>>)

\* toggle_link_metric, lines 227-230
ToggleLinkMetricRpc ==
  /\ op = "toggle_link_metric" /\ pc = "rpc"
  /\ IF cmd.flag
     THEN Issue("setInterfaceMetric", <<cmd.interface, ToString(cmd.metric)>>)
     ELSE Issue("unsetInterfaceMetric", <<cmd.interface>>)

\* LMValidateCmd._run, lines 564-565
FetchRunningConfig ==
  /\ op = "validate" /\ pc = "config"
  /\ areas' \in UNION {[1..k -> AreaPool] : k \in 0..MaxAreas}
  /\ calls' = calls \o <<Call("fetch_initialization_events", <<>>),
                          Call("fetch_running_config_thrift", <<>>)>>
  /\ pc' = "validate"
  /\ UNCHANGED <<op, codecvars, cmd, links, status, regex_invalid_interfaces,
                 is_pass>>

\* LMValidateCmd._run, lines 568-591; init_is_pass is what
\* validate_init_event answers.
ValidateInterfaceRegex ==
  /\ op = "validate" /\ pc = "validate"
  /\ regex_invalid_interfaces' = validate_interface_regex(links, areas)
  /\ \E init_is_pass \in BOOLEAN :
       is_pass' = (init_is_pass /\ Cardinality(DOMAIN regex_invalid_interfaces') = 0)
  /\ pc' = "returned"
  /\ UNCHANGED <<op, codecvars, cmd, links, areas, status, calls>>

LmNext ==
  \/ FetchLinks
  \/ ToggleNodeOverloadBitGuards \/ ToggleLinkOverloadBitGuards
  \/ ToggleNodeMetricIncGuards \/ ToggleLinkMetricIncGuards
  \/ ToggleLinkMetricGuards
  \/ YesNo
  \/ ToggleNodeOverloadBitRpc \/ ToggleLinkOverloadBitRpc
  \/ ToggleNodeMetricIncRpc \/ ToggleLinkMetricIncRpc \/ ToggleLinkMetricRpc
  \/ FetchRunningConfig \/ ValidateInterfaceRegex

LmSpec == LmInit /\ [][LmNext]_vars


(***************************************************************************)
(* Properties.                                                             *)
(***************************************************************************)
Names(log) == {log[i].name : i \in 1..Len(log)}
Count(log, name) == Cardinality({i \in 1..Len(log) : log[i].name = name})
GenericReadUsed == "fastproto.decode" \notin Names(calls)
GenericWriteUsed == "fastproto.encode" \notin Names(wcalls)
RequiredSet(inst) == inst.cls = "KnownKeys" => inst.keys.kind # "None"
RemoveAt(m, k) == SubSeq(m, 1, k - 1) \o SubSeq(m, k + 1, Len(m))

\* C1: an instance with its required fields set, written by the generic
\* writer and read back by the generic reader into a fresh instance, is read
\* without an error and the instance read equals the one written.
C1_RoundTrip ==
  (op = "roundtrip" /\ RequiredSet(x) /\ GenericWriteUsed /\ GenericReadUsed) =>
    /\ pc # "raised"
    /\ pc = "compared" => eqres /\ ~neres

C1_Witness ==
  /\ op = "roundtrip" /\ pc = "compared" /\ eqres
  /\ GenericWriteUsed /\ GenericReadUsed
  /\ "readStructBegin" \in Names(calls) /\ "writeStructBegin" \in Names(wcalls)
  /\ x.cls = "KnownKeys" /\ x.keys.kind = "dict" /\ Len(x.keys.val) = 2
  /\ x.keys.val[1][1] = Str(<<233>>)

\* C2: a KnownKeys stream without a field of id 1 fails with
\* MISSING_REQUIRED_FIELD naming 'keys' and KnownKeys; a CurveKeyPair stream
\* is read without an error and a field it omits stays None; a read that
\* returns leaves every required field set.
NoFieldOfId(m, id) == \A k \in 1..Len(m) : m[k].fid # id

C2_RequiredOnRead ==
  /\ (op = "read" /\ self.cls = "KnownKeys" /\ pc # "compose"
      /\ NoFieldOfId(msg, 1)) =>
       /\ pc # "returned"
       /\ pc = "raised" =>
            exc = Exc("MISSING_REQUIRED_FIELD",
                      "Required field 'keys' was not found in serialized data! Struct: KnownKeys")
  /\ (op = "read" /\ self.cls = "CurveKeyPair") =>
       /\ pc # "raised"
       /\ (pc # "compose" /\ NoFieldOfId(msg, 1)) => self.privateKey = None
       /\ (pc # "compose" /\ NoFieldOfId(msg, 2)) => self.publicKey = None
  /\ (op # "eq" /\ pc \in {"returned", "compared"} /\ self.cls = "KnownKeys") =>
       self.keys.kind # "None"

C2_Witness ==
  /\ op = "read" /\ self.cls = "KnownKeys" /\ pc = "raised"
  /\ Len(msg) = 2 /\ NoFieldOfId(msg, 1)
  /\ exc.type = "MISSING_REQUIRED_FIELD"
  /\ calls[Len(calls)].name = "checkRequired"

\* C3: a field whose id the schema does not declare, anywhere in a message,
\* changes nothing of what the generic reader produces: the instance, the
\* outcome and the error are those of the message without it, and the field
\* costs one readFieldBegin, one skip of its wire type and one readFieldEnd.
UnknownAt(m, k) == m[k].fid \notin KnownIds(self.cls)

C3_ForwardCompatible ==
  (op = "read" /\ pc \in {"returned", "raised"} /\ GenericReadUsed) =>
    \A k \in 1..Len(msg) :
      UnknownAt(msg, k) =>
        LET ref == GenericRead(self.cls, Wire(RemoveAt(msg, k)))
            reached == Count(calls, "skip") # Count(ref.calls, "skip")
        IN  /\ self = ref.self /\ pc = ref.pc /\ exc = ref.exc
            /\ exc.type # "UnicodeDecodeError" => reached
            /\ reached =>
                 /\ Count(calls, "skip") = Count(ref.calls, "skip") + 1
                 /\ Len(calls) = Len(ref.calls) + 3
                 /\ Call("skip", msg[k].ftype) \in {calls[i] : i \in 1..Len(calls)}

C3_Witness ==
  /\ op = "read" /\ pc = "returned" /\ GenericReadUsed
  /\ self.cls = "KnownKeys" /\ Len(msg) = 2
  /\ msg[1] = NestedField(3, "STRUCT") /\ msg[2].fid = 1
  /\ Len(self.keys.val) = 2


\* C4: a message read by the generic reader gives the same 'keys', outcome
\* and error whether its maps declare their count or declare a negative size
\* and are ended by peekMap(); apart from the peekMap() calls the reader
\* makes the same calls, and a completed read has read two strings for
\* every entry and called readMapEnd once for every map.
Flip(m) ==
  [k \in 1..Len(m) |->
     IF m[k].fid = 1 /\ m[k].ftype = "MAP" /\ m[k].shape = "plain"
     THEN [m[k] EXCEPT !.peek = ~@] ELSE m[k]]

KeysFields(m) == {k \in 1..Len(m) : m[k].fid = 1 /\ m[k].ftype = "MAP"}

KeysEntries(m, peeked) ==
  EntriesIn(SelectSeq(m, LAMBDA f : f.fid = 1 /\ f.ftype = "MAP"
                                     /\ (peeked => f.peek)))

WithoutPeeks(log) == SelectSeq(log, LAMBDA c : c.name # "peekMap")

\* In the calls w, the j-th readMapBegin is followed by two readString calls
\* for every entry of the j-th 'keys' map of m, and then by readMapEnd.
EntriesThenEnd(w, m) ==
  LET begins == SelectSeq([i \in 1..Len(w) |-> i],
                          LAMBDA i : w[i].name = "readMapBegin")
      maps == SelectSeq(m, LAMBDA f : f.fid = 1 /\ f.ftype = "MAP")
  IN  /\ Len(begins) = Len(maps)
      /\ \A j \in 1..Len(begins) :
           LET n == Len(maps[j].entries)
           IN  /\ begins[j] + 2 * n + 1 <= Len(w)
               /\ \A t \in 1..(2 * n) : w[begins[j] + t].name = "readString"
               /\ w[begins[j] + 2 * n + 1].name = "readMapEnd"

C4_MapTermination ==
  (op = "read" /\ self.cls = "KnownKeys" /\ pc \in {"returned", "raised"}
   /\ GenericReadUsed) =>
    LET ref == GenericRead("KnownKeys", Wire(Flip(msg)))
    IN  /\ self.keys = ref.self.keys /\ pc = ref.pc /\ exc = ref.exc
        /\ WithoutPeeks(calls) = WithoutPeeks(ref.calls)
        /\ exc.type # "UnicodeDecodeError" =>
             /\ EntriesThenEnd(WithoutPeeks(calls), msg)
             /\ Count(calls, "readString") = 2 * KeysEntries(msg, FALSE)
             /\ Count(calls, "readMapEnd") = Cardinality(KeysFields(msg))
             /\ Count(calls, "peekMap") =
                  Cardinality({k \in KeysFields(msg) : msg[k].peek})
                  + KeysEntries(msg, TRUE)

C4_Witness ==
  /\ op = "read" /\ self.cls = "KnownKeys" /\ pc = "returned" /\ GenericReadUsed
  /\ Len(msg) = 1 /\ msg[1].fid = 1 /\ msg[1].peek /\ Len(msg[1].entries) = 2
  /\ Len(self.keys.val) = 2
  /\ Count(calls, "peekMap") = 3

\* C5: a field header whose id the schema declares under another wire type
\* is answered by skip(ftype) with the wire type of the stream; the step
\* changes no slot and raises nothing.
Mismatched == fid \in KnownIds(self.cls) /\ ftype # SchemaType(self.cls, fid)

C5_MismatchSkipped ==
  [][(pc = "field" /\ Mismatched) =>
       /\ self' = self /\ exc' = NoExc /\ pc' = "fieldEnd"
       /\ calls' = Append(calls, Call("skip", ftype))
       /\ pos' = Skip(stream, pos, ftype)]_vars

C5_Witness ==
  /\ pc = "fieldEnd" /\ Mismatched
  /\ calls[Len(calls)] = Call("skip", "STRUCT")
  /\ self.cls = "CurveKeyPair" /\ self.publicKey.kind = "bytes"

\* C6: the generic writer emits struct begin, then for every set field, in
\* ascending id order, its header and value, then one STOP, then struct end;
\* a map is its count and as many key-then-value pairs.  What has been
\* written is at every moment a prefix of that sequence.
ShapeOfBytes(id, v) ==
  IF v.kind = "None" THEN <<>>
  ELSE <<FieldBeginTok("STRING", id), StringTok(v.val), FieldEndTok>>

ShapeOfMap(id, v) ==
  IF v.kind = "None" THEN <<>>
  ELSE <<FieldBeginTok("MAP", id),
         MapBeginTok("STRING", "STRING", Len(v.val))>>
       \o [j \in 1..(2 * Len(v.val)) |->
             IF j % 2 = 1 THEN StringTok(EncodeUtf8(v.val[(j + 1) \div 2][1].val))
             ELSE StringTok(v.val[j \div 2][2].val)]
       \o <<MapEndTok, FieldEndTok>>

Shape(inst) ==
  <<StructBeginTok>>
  \o (IF inst.cls = "KnownKeys" THEN ShapeOfMap(1, inst.keys)
      ELSE ShapeOfBytes(1, inst.privateKey) \o ShapeOfBytes(2, inst.publicKey))
  \o <<FieldStopTok, StructEndTok>>

IsPrefix(p, q) == Len(p) <= Len(q) /\ SubSeq(q, 1, Len(p)) = p

C6_WriterShape ==
  (op = "roundtrip" /\ GenericWriteUsed) =>
    /\ IsPrefix(out, Shape(x))
    /\ pc \notin {"write", "writeKeys", "writePrivateKey", "writePublicKey",
                  "writeFieldStop", "writeStructEnd"} => out = Shape(x)
    /\ Cardinality({i \in 1..Len(out) : out[i] = FieldStopTok}) <= 1

C6_Witness ==
  /\ op = "roundtrip" /\ GenericWriteUsed /\ pc = "written"
  /\ x.cls = "CurveKeyPair" /\ x.privateKey = None /\ x.publicKey.kind = "bytes"
  /\ out = <<StructBeginTok, FieldBeginTok("STRING", 2),
             StringTok(x.publicKey.val), FieldEndTok, FieldStopTok, StructEndTok>>


\* C7 as stated: the specialized implementation is used, by read and by
\* write, only under an acceleratable protocol whose transport has the
\* direct-buffer capability, with thrift_spec and fastproto present; in every
\* other case the generic reader or writer runs.
Acceleratable(p) ==
  \/ p.kind \in {"TBinaryProtocolAccelerated", "TCompactProtocolAccelerated"}
  \/ /\ p.kind = "THeaderProtocolAccelerate"
     /\ p.protocol_id \in {"T_BINARY_PROTOCOL", "T_COMPACT_PROTOCOL"}

Registered == thrift_spec /\ fastproto
ReadStarted == calls # <<>>
WriteStarted == wcalls # <<>>

SameSlot(u, v) ==
  /\ u.kind = v.kind
  /\ IF u.kind = "dict"
     THEN {u.val[i] : i \in 1..Len(u.val)} = {v.val[i] : i \in 1..Len(v.val)}
     ELSE u.val = v.val

SameSlots(a, b) ==
  \A n \in {"keys", "privateKey", "publicKey"} : SameSlot(a[n], b[n])

C8_StructuralEquality ==
  pc = "compared" =>
    /\ eqres <=> SameSlots(self, x)
    /\ neres <=> ~eqres

C8_Witness ==
  /\ op = "eq" /\ pc = "compared" /\ eqres /\ ~neres
  /\ self.cls = "KnownKeys" /\ self.keys.kind = "dict"
  /\ Len(self.keys.val) = 2 /\ self.keys.val # x.keys.val

\* C9: write never calls the required-field validator; the generic write of
\* a KnownKeys whose 'keys' is unset raises nothing and emits struct begin,
\* STOP and struct end only.
C9_NoValidationOnWrite ==
  /\ "checkRequired" \notin Names(wcalls)
  /\ (op = "roundtrip" /\ x.cls = "KnownKeys" /\ x.keys = None
      /\ GenericWriteUsed) =>
       /\ IsPrefix(out, <<StructBeginTok, FieldStopTok, StructEndTok>>)
       /\ pc \in {"write", "writeKeys", "writeFieldStop", "writeStructEnd",
                  "written"} => exc = NoExc
       /\ pc = "written" => out = <<StructBeginTok, FieldStopTok, StructEndTok>>

C9_Witness ==
  /\ op = "roundtrip" /\ pc = "written" /\ GenericWriteUsed
  /\ x.cls = "KnownKeys" /\ x.keys = None /\ exc = NoExc
  /\ out = <<StructBeginTok, FieldStopTok, StructEndTok>>
  /\ Len(wcalls) = 3

\* C10: on the accelerated binary, accelerated compact and generic path the
\* validator runs at most once in a read, as the last call, right after the
\* decoder (fastproto.decode, or readStructEnd following the STOP header);
\* a read that returns has run it.
Validations == {i \in 1..Len(calls) : calls[i].name = "checkRequired"}

C10_ValidatorPlacement ==
  /\ Cardinality(Validations) <= 1
  /\ \A i \in Validations :
       /\ i = Len(calls) /\ i > 1
       /\ \/ /\ calls[i - 1].name = "readStructEnd"
             /\ ftype = "STOP" /\ calls[i - 2].name = "readFieldBegin"
          \/ i = 2 /\ calls[1] \in {Call("fastproto.decode", "0"),
                                   Call("fastproto.decode", "2")}
  /\ (op # "eq" /\ pc \in {"returned", "compared"}) => Validations # {}
  /\ pc = "checkRequired" => Validations = {}

C10_Witness ==
  /\ op = "read" /\ pc = "returned"
  /\ calls = <<Call("fastproto.decode", "2"), Call("checkRequired", "")>>
  /\ self.cls = "KnownKeys" /\ Len(self.keys.val) = 1

\* C11: while the generic reader reads one map payload of 'keys', by count
\* or by peekMap(), the dict holds every key read so far once, mapped to the
\* value of the last of its occurrences read so far; at the map end this is
\* the last occurrence in the payload.
ItemsOf(d) == {d.val[j] : j \in 1..Len(d.val)}

LastOccurrences(entries) ==
  {j \in 1..Len(entries) :
     \A j2 \in (j + 1)..Len(entries) : entries[j2][1] # entries[j][1]}

LastWins(entries) ==
  {<<Str(DecodeUtf8(entries[j][1]).val), Bytes(entries[j][2])>> :
     j \in LastOccurrences(entries)}

\* The field of the message whose header was read last.
CurrentField == msg[Count(calls, "readFieldBegin")]

InKeysMap ==
  /\ op = "read" /\ self.cls = "KnownKeys" /\ GenericReadUsed
  /\ \/ pc = "mapLoop"
     \/ pc = "fieldEnd" /\ fid = 1 /\ ftype = "MAP"

C11_LastWriteWins ==
  InKeysMap =>
    LET seen == SubSeq(CurrentField.entries, 1, idx)
    IN  /\ idx <= Len(CurrentField.entries)
        /\ pc = "fieldEnd" => idx = Len(CurrentField.entries)
        /\ ItemsOf(self.keys) = LastWins(seen)
        /\ Len(self.keys.val) = Cardinality({seen[j][1] : j \in 1..Len(seen)})

C11_Witness ==
  /\ InKeysMap /\ pc = "fieldEnd" /\ CurrentField.peek
  /\ Len(CurrentField.entries) = 2
  /\ CurrentField.entries[1][1] = CurrentField.entries[2][1]
  /\ CurrentField.entries[1][2] # CurrentField.entries[2][2]
  /\ self.keys.val = <<<<Str(<<97>>), Bytes(CurrentField.entries[2][2])>>>>

\* C12: a generic read makes, in order, readStructBegin, then for every
\* field of the message readFieldBegin, one value decode or one skip and one
\* readFieldEnd, then the readFieldBegin that returns STOP, readStructEnd and
\* the validator; when it returns, the cursor is right after the struct the
\* first struct-level STOP header ends, and what follows the struct on the
\* stream is unread.
EntryCalls(f) ==
  [j \in 1..((IF f.peek THEN 3 ELSE 2) * Len(f.entries)) |->
     IF f.peek /\ j % 3 = 1 THEN Call("peekMap", "") ELSE Call("readString", "")]

ValueCalls(cls, f) ==
  IF f.ftype # SchemaType(cls, f.fid) THEN <<Call("skip", f.ftype)>>
  ELSE IF cls = "CurveKeyPair" THEN <<Call("readString", "")>>
  ELSE <<Call("readMapBegin", "")>> \o EntryCalls(f)
       \o (IF f.peek THEN <<Call("peekMap", "")>> ELSE <<>>)
       \o <<Call("readMapEnd", "")>>

RECURSIVE FieldLoopCalls(_, _)
FieldLoopCalls(cls, m) ==
  IF m = <<>> THEN <<>>
  ELSE <<Call("readFieldBegin", "")>> \o ValueCalls(cls, Head(m))
       \o <<Call("readFieldEnd", "")>> \o FieldLoopCalls(cls, Tail(m))

ReadCalls(cls, m) ==
  <<Call("readStructBegin", "")>> \o FieldLoopCalls(cls, m)
  \o <<Call("readFieldBegin", ""), Call("readStructEnd", ""),
       Call("checkRequired", "")>>

\* The nesting depth of the token at i: the structs open before it.
Depth(toks, i) ==
  Cardinality({j \in 1..(i - 1) : toks[j].t = "structBegin"})
  - Cardinality({j \in 1..(i - 1) : toks[j].t = "structEnd"})

StructLevelStops(toks) ==
  {i \in 1..Len(toks) : toks[i] = FieldStopTok /\ Depth(toks, i) = 1}

FirstStop(toks) ==
  CHOOSE i \in StructLevelStops(toks) : \A j \in StructLevelStops(toks) : i <= j

C12_CursorAndFieldLoop ==
  /\ (op = "read" /\ pc # "compose" /\ GenericReadUsed) =>
       /\ IsPrefix(calls, ReadCalls(self.cls, msg))
       /\ pc = "returned" =>
            /\ calls = ReadCalls(self.cls, msg)
            /\ SubSeq(stream, pos, Len(stream)) = NextMessage
       /\ pc = "raised" =>
            exc.type \in {"UnicodeDecodeError", "MISSING_REQUIRED_FIELD"}
  /\ (pc = "returned" /\ GenericReadUsed) =>
       /\ StructLevelStops(stream) # {}
       /\ stream[pos - 1] = StructEndTok
       /\ pos - 2 = FirstStop(stream)
       /\ Count(calls, "readFieldEnd") = Count(calls, "readFieldBegin") - 1

C12_Witness ==
  /\ op = "read" /\ pc = "returned" /\ GenericReadUsed
  /\ self.cls = "CurveKeyPair" /\ Len(msg) = 2
  /\ msg[1] = NestedField(2, "STRUCT") /\ msg[2].fid = 1 /\ msg[2].ftype = "STRING"
  /\ Cardinality(StructLevelStops(stream)) = 2
  /\ pos = Len(stream) - 2

\* C13: when a read returns, a slot holds what the last field of its id and
\* declared wire type carried, and is None when there was none; 'keys' holds
\* the entries of the last such map only, since the dict is empty when the
\* first entry of a map is about to be read.
Occurrences(m, id, type) == SelectSeq(m, LAMBDA f : f.fid = id /\ f.ftype = type)

LastBytes(m, id) ==
  LET fs == Occurrences(m, id, "STRING")
  IN  IF fs = <<>> THEN None ELSE Bytes(fs[Len(fs)].sval)

C13_LastOccurrence ==
  /\ (pc = "mapLoop" /\ idx = 0) => self.keys = Dict(<<>>)
  /\ (op = "read" /\ pc = "returned" /\ GenericReadUsed) =>
       IF self.cls = "KnownKeys"
       THEN LET fs == Occurrences(msg, 1, "MAP")
            IN  /\ fs # <<>>
                /\ ItemsOf(self.keys) = LastWins(fs[Len(fs)].entries)
       ELSE /\ self.privateKey = LastBytes(msg, 1)
            /\ self.publicKey = LastBytes(msg, 2)

C13_Witness ==
  /\ op = "read" /\ pc = "returned" /\ GenericReadUsed
  /\ self.cls = "KnownKeys" /\ Len(Occurrences(msg, 1, "MAP")) = 2
  /\ Len(msg[1].entries) = 1 /\ Len(msg[2].entries) = 1
  /\ msg[1].entries[1][1] # msg[2].entries[1][1]
  /\ self.keys.val = <<<<Str(DecodeUtf8(msg[2].entries[1][1]).val), Bytes(<<1>>)>>>>

\* C14 as stated: once toggle_link_metric has called check_link_overriden
\* for an interface of links.interfaceDetails, status is None exactly when
\* the metricOverride of the interface is not set, and is otherwise True
\* when metricOverride equals metric and False when it does not.
C14_AsStated ==
  (op = "toggle_link_metric" /\ status.kind # "unbound") =>
    LET metricOverride == links.interfaceDetails[cmd.interface].metricOverride
    IN  IF metricOverride.kind = "None" THEN status.kind = "None"
        ELSE /\ status.kind = "bool"
             /\ status.val <=> (metricOverride.val = cmd.metric)

\* C15: the dict _validate_interface_regex returns has as keys the
\* interfaces of links.interfaceDetails that no area accepts, an area
\* accepting an interface that matches one of its include or redistribute
\* regexes and none of its exclude regexes; every key maps to the details of
\* the interface; without areas every interface is a key; and _run passes
\* only when the dict is empty.
MatchesSome(regexes, interface) ==
  \E k \in 1..Len(regexes) : Matches(regexes[k], interface)

Accepts(area, interface) ==
  /\ \/ MatchesSome(area.include_interface_regexes, interface)
     \/ MatchesSome(area.redistribute_interface_regexes, interface)
  /\ ~MatchesSome(area.exclude_interface_regexes, interface)

Rejected ==
  {i \in DOMAIN links.interfaceDetails :
     ~\E a \in 1..Len(areas) : Accepts(areas[a], i)}

C15_InvalidInterfaces ==
  (op = "validate" /\ pc = "returned") =>
    /\ DOMAIN regex_invalid_interfaces = Rejected
    /\ \A i \in DOMAIN regex_invalid_interfaces :
         regex_invalid_interfaces[i] = links.interfaceDetails[i]
    /\ areas = <<>> => DOMAIN regex_invalid_interfaces = DOMAIN links.interfaceDetails
    /\ is_pass => Rejected = {}

C15_Witness ==
  /\ op = "validate" /\ pc = "returned"
  /\ DOMAIN links.interfaceDetails = {"if0", "if1"} /\ Len(areas) = 2
  /\ MatchesSome(areas[1].include_interface_regexes, "if0")
  /\ MatchesSome(areas[1].exclude_interface_regexes, "if0")
  /\ ~Accepts(areas[1], "if1") /\ Accepts(areas[2], "if1")
  /\ DOMAIN regex_invalid_interfaces = {"if0"}
  /\ regex_invalid_interfaces["if0"] = InterfaceDetails(TRUE, PyInt(1), 0)

\* C16: a toggle calls the client to change the state of the node at most
\* once, after fetch_lm_links and after utils.yesno returned true, and not
\* after sys.exit; once utils.yesno returned false, or the toggle ended
\* without asking, no such call has been made.
ToggleCommands ==
  {"toggle_node_overload_bit", "toggle_link_overload_bit",
   "toggle_node_metric_inc", "toggle_link_metric_inc", "toggle_link_metric"}

StateChanging ==
  {"setNodeOverload", "unsetNodeOverload", "setInterfaceOverload",
   "unsetInterfaceOverload", "setNodeInterfaceMetricIncrement",
   "unsetNodeInterfaceMetricIncrement", "setInterfaceMetricIncrement",
   "unsetInterfaceMetricIncrement", "setInterfaceMetric", "unsetInterfaceMetric"}

Changes == {i \in 1..Len(calls) : calls[i].name \in StateChanging}
Answers(a) == {i \in 1..Len(calls) : calls[i] = Call("utils.yesno", <<a>>)}
Fetches == {i \in 1..Len(calls) : calls[i].name = "fetch_lm_links"}
Exits == {i \in 1..Len(calls) : calls[i].name = "sys.exit"}

C16_ConfirmationGating ==
  op \in ToggleCommands =>
    /\ Cardinality(Changes) <= 1
    /\ \A i \in Changes :
         /\ \E j \in Fetches : j < i
         /\ \E k \in Answers("True") : k < i
         /\ \A e \in Exits : i < e
    /\ Answers("False") # {} => Changes = {}
    /\ (pc \in {"returned", "exited"} /\ Answers("True") = {}) => Changes = {}
    /\ pc = "rpc" => Answers("True") # {} /\ Fetches # {}

C16_Witness ==
  /\ op = "toggle_link_metric_inc" /\ pc = "returned" /\ ~cmd.yes
  /\ Len(calls) = 3
  /\ calls[1].name = "fetch_lm_links"
  /\ calls[2] = Call("utils.yesno", <<"True">>)
  /\ calls[3] = Call("setInterfaceMetricIncrement", <<"if0", "2">>)

====
